---- MODULE Spec2Model ----
(***************************************************************************)
(* Latency aggregation of the memtier aggregator                           *)
(* (src/parse_memtier_results.py): the HDR text adapter, the histogram     *)
(* merge, the quantile estimator and the per-rate-point driver of main();  *)
(* and the latency parse of the mutilate aggregator (src/data-intel.py).   *)
(* Power logs: parse_powerstat_file of each aggregator (SpecPower), and    *)
(* the batch entry points that join latency and power (SpecBatch).         *)
(* The sharded Redis orchestrator (src/redis_runner.py): SpecRedis.        *)
(*                                                                         *)
(* Numbers.  Latency values and counts are integers.  A Python None is     *)
(* Null.  The mean, the only quotient the code forms, is kept exact as a   *)
(* pair <<numerator, denominator>>; NullQ is the None of that type.        *)
(* math.ceil(q * total) with q = p / 100.0 is computed on integers as      *)
(* (p * total + 99) \div 100; the two agree for every p of PCTS and every  *)
(* total below 3 000 000 in double arithmetic.                             *)
(***************************************************************************)
EXTENDS Integers, Sequences, FiniteSets, TLC

\* ------------------------------------------------------------------ bounds
\* SpecHdr: rows of one histogram file and its largest cumulative count.
MaxRows == 3
MaxCum == 2
\* SpecQuantile: largest count of one value of a Distribution.
MaxCount == 10
\* Spec: client logs of a rate point, histogram files of one client log,
\* rows and largest cumulative count of such a file.
MaxLogs == 2
MaxHdr == 1
RunRows == 1
RunCum == 1
\* SpecMutilate: samples of one raw latency file.
MaxSamples == 2
\* SpecPower: data rows of one power log.
MaxPRows == 3

\* ------------------------------------------------------------ input samples
\* Latency values (microseconds) a histogram row may carry.
HdrValues == {100, 200, 300, 400}
\* Latency values of the files read by main() in Spec.
RunValues == {100, 200}
\* Latencies (milliseconds) a percentile summary may report.
SummaryMs == {12, 15}
\* The percentiles a summary file has a parsable line for: all, all but p50,
\* p99 alone, none.
LinePatterns == {{50, 90, 95, 99}, {90, 95, 99}, {99}, {}}
\* Latencies (microseconds) of a raw sample file, and the fields of a
\* mutilate log: the average, 90th and 99th of its read line, its total QPS.
LatValues == {100, 200}
ReadFields == <<120, 250, 400>>
QpsValues == {1000}
\* The rate identifier of the qps_<rate> directory.
Rates == {"100"}
\* The utilization (idle percent) and power (watts) columns of a data row of
\* a power log, and the number of lines after the last data row.
UtilValues == {40, 80}
PowerValues == {10, 12, 100}
PowerTails == {0, 5}
\* SpecBatch: the rate fields of the file names of a run directory, as their
\* characters (a digit is its value, Letter is a letter): "9", "100", "x".
Letter == 33
RateNames == {<<9>>, <<1, 0, 0>>, <<Letter>>}
\* SpecBatch: the first component of data-intel.py's run directory argument,
\* as its parts between underscores.
RunDirectories == {<<"logs">>, <<"experiment", "logs", "c6620">>}
\* SpecRedis: QPS_LIST as configured, and a sweep of two points.
QpsLists == {<<300000>>, <<300000, 600000>>}
\* The series of the Outlier-Filtered Averager's example.
ExampleSeries == <<10, 10, 10, 10, 100>>

\* ---------------------------------------------------------------- constants
Null == -1
NullQ == <<Null, 1>>
PCTS == <<50, 90, 95, 99>>
PctSet == {PCTS[i] : i \in 1..Len(PCTS)}
NoPct == [p \in PctSet |-> Null]
EmptyDict == [v \in {} |-> 0]
\* A column of a power log row that is not a number.
Bad == -2
\* A float NaN, as the quotient 0 / 0.
NaNQ == <<0, 0>>
\* parse_powerstat_file: the first data line and the fewest lines of a log.
start_index == 20
MinLines == 25
\* redis_runner.py
REDIS_SHARDS == 20
REDIS_PORT_BASE == 7000
REDIS_CORES_START == 0
CLIENTS == <<"client_mem1", "client_mem2", "client_mem3">>
\* [f"{2*i}-{2*i+1}" for i in range(10)] * 2, a slice as <<first, last>>.
CORE_SLICES ==
    LET slices == [i \in 1..10 |-> <<2 * (i - 1), 2 * (i - 1) + 1>>]
    IN slices \o slices

\* ------------------------------------------------------------------ helpers
RECURSIVE SumFun(_, _)
SumFun(f, S) ==
    IF S = {} THEN 0
    ELSE LET x == CHOOSE y \in S : TRUE IN f[x] + SumFun(f, S \ {x})

RECURSIVE SortedSeq(_)
SortedSeq(S) ==
    IF S = {} THEN <<>>
    ELSE LET m == CHOOSE x \in S : \A y \in S : x <= y
         IN <<m>> \o SortedSeq(S \ {m})

\* counts[k] += x on a defaultdict(int): the key is created when absent.
DictAdd(d, k, x) ==
    [v \in DOMAIN d \cup {k} |->
        (IF v \in DOMAIN d THEN d[v] ELSE 0) + (IF v = k THEN x ELSE 0)]

\* ------------------------------------------------------------ parse_hdr_txt
\* A histogram file: whether the token 'Value' occurs, and the 4-token rows
\* after the header, each as <<value, cumulative count>>.
HdrFilesOf(values, maxRows, maxCum) ==
    [header : BOOLEAN,
     rows : UNION {[1..n -> values \X (0..maxCum)] : n \in 0..maxRows}]

\* parse_hdr_txt, 78-80: the delta of a row, never negative.
DeltaUnclamped(tc, prev) == tc - prev

Delta(tc, prev) == IF tc - prev < 0 THEN 0 ELSE tc - prev

RECURSIVE HdrLoop(_, _, _, _)
HdrLoop(rows, i, counts, prev) ==
    IF i > Len(rows) THEN [counts |-> counts, prev |-> prev]
    ELSE LET v == rows[i][1]
             tc == rows[i][2]
         IN HdrLoop(rows, i + 1, DictAdd(counts, v, Delta(tc, prev)), tc)

parse_hdr_txt(f) ==
    IF ~f.header THEN [counts |-> EmptyDict, prev |-> 0]
    ELSE HdrLoop(f.rows, 1, EmptyDict, 0)

\* --------------------------------------------------- merge (main, 179-182)
RECURSIVE MergeItems(_, _, _)
MergeItems(merged, counts, keys) ==
    IF keys = <<>> THEN merged
    ELSE MergeItems(DictAdd(merged, keys[1], counts[keys[1]]), counts, Tail(keys))

\* A merge that stores the file's count instead of adding it.
MergeCountsOverwrite(merged, counts) ==
    [v \in DOMAIN merged \cup DOMAIN counts |->
        IF v \in DOMAIN counts THEN counts[v] ELSE merged[v]]

MergeCounts(merged, counts) ==
    MergeItems(merged, counts, SortedSeq(DOMAIN counts))

\* ------------------------------------------------------- quantile_from_counts
Total(counts) == SumFun(counts, DOMAIN counts)

CeilTarget(p, total) == (p * total + 99) \div 100

\* quantile_from_counts, 98: the test that ends the walk.
ReachedStrict(run, target) == run > target

Reached(run, target) == run >= target

RECURSIVE QuantileLoop(_, _, _, _)
QuantileLoop(counts, items, run, target) ==
    LET v == items[1]
        r == run + counts[v]
    IN IF Reached(r, target) THEN v
       ELSE IF Len(items) = 1 THEN v
       ELSE QuantileLoop(counts, Tail(items), r, target)

\* The values in descending order.
RECURSIVE SortedDesc(_)
SortedDesc(S) ==
    IF S = {} THEN <<>>
    ELSE LET m == CHOOSE x \in S : \A y \in S : x >= y
         IN <<m>> \o SortedDesc(S \ {m})

ItemsDescending(counts) == SortedDesc(DOMAIN counts)

\* quantile_from_counts, 90: the values in ascending order.
SortedItems(counts) == SortedSeq(DOMAIN counts)

quantile_from_counts(counts, p) ==
    IF DOMAIN counts = {} THEN Null
    ELSE IF Total(counts) = 0 THEN Null
    ELSE QuantileLoop(counts, SortedItems(counts), 0,
                      CeilTarget(p, Total(counts)))

\* ---------------------------------------------------------- mean_from_counts
mean_from_counts(counts) ==
    IF DOMAIN counts = {} THEN NullQ
    ELSE IF Total(counts) = 0 THEN NullQ
    ELSE <<SumFun([v \in DOMAIN counts |-> v * counts[v]], DOMAIN counts),
           Total(counts)>>

\* ------------------------------------------------------------ parse_full_run
\* A percentile summary file, as the value of its last parsable line for each
\* percentile of PCTS (Null: no such line); exists is full_run.exists().
FullRunFiles ==
    {[exists |-> TRUE, pcts |-> f] :
        f \in {g \in [PctSet -> {Null} \cup SummaryMs] :
                 /\ {p \in PctSet : g[p] # Null} \in LinePatterns
                 /\ \A p, q \in PctSet :
                       (p < q /\ g[p] # Null /\ g[q] # Null) => g[p] <= g[q]}}
        \cup {[exists |-> FALSE, pcts |-> NoPct]}

parse_full_run(f) == [p \in PctSet |-> f.pcts[p]]

\* An update that keeps the value read last.
MaxOneLast(old, new) == IF new # Null THEN new ELSE old

\* main, 174-176: the running maximum of one percentile.
MaxOne(old, new) ==
    IF new # Null /\ (old = Null \/ new > old) THEN new ELSE old

\* main, 173-176: the running maxima after one client's summary.
MaxUpdate(pmax, pfr) == [p \in PctSet |-> MaxOne(pmax[p], pfr[p])]

\* ------------------------------------------------------ estimator of main()
\* A mode test on the total count instead of the dict.
UseDistributionTotal(merged) == Total(merged) > 0

\* main, 186: `if merged_counts:` is the truth value of the dict.
UseDistribution(merged) == DOMAIN merged # {}

\* main, 184-193.
PctVals(merged, pmax) ==
    IF UseDistribution(merged)
    THEN [p \in PctSet |-> quantile_from_counts(merged, p)]
    ELSE [p \in PctSet |-> IF pmax[p] # Null THEN pmax[p] * 1000 ELSE Null]

MeanUs(merged) ==
    IF UseDistribution(merged) THEN mean_from_counts(merged) ELSE NullQ

\* A fallback on p90 instead of p50.
AvgLatencyP90(mean, pvals) ==
    IF mean # NullQ THEN mean
    ELSE IF pvals[90] # Null THEN <<pvals[90], 1>> ELSE NullQ

\* main, 194.
AvgLatency(mean, pvals) ==
    IF mean # NullQ THEN mean
    ELSE IF pvals[50] # Null THEN <<pvals[50], 1>> ELSE NullQ

\* main, 197-199: "convert to microseconds for output".
AvgOut(avg) == IF avg # NullQ THEN <<avg[1] * 1000, avg[2]>> ELSE NullQ
PctOut(x) == IF x # Null THEN x * 1000 ELSE Null

\* ------------------------------------ parse_mutilate_file (data-intel.py)
\* A mutilate master log with its raw sample file: read is the number of
\* fields (average, 90th, 99th) of the `read` line assigned before the parse
\* of the line stopped (3: the whole line); qps is the `Total QPS =` value;
\* lat is the .lat file, as the samples of its parsable lines.
MutilateLogs ==
    [read : 0..3,
     qps : {Null} \cup QpsValues,
     lat : [exists : {TRUE},
            samples : UNION {[1..n -> LatValues] : n \in 0..MaxSamples}]
              \cup {[exists |-> FALSE, samples |-> <<>>]}]

NoLog == [read |-> 0, qps |-> Null, lat |-> [exists |-> FALSE, samples |-> <<>>]]
NoResult == [raised |-> FALSE, row |-> <<>>]

RECURSIVE SumSeq(_)
SumSeq(q) == IF q = <<>> THEN 0 ELSE Head(q) + SumSeq(Tail(q))

RECURSIVE Insert(_, _)
Insert(x, q) ==
    IF q = <<>> THEN <<x>>
    ELSE IF x <= Head(q) THEN <<x>> \o q
    ELSE <<Head(q)>> \o Insert(x, Tail(q))

RECURSIVE SortSamples(_)
SortSamples(q) == IF q = <<>> THEN <<>> ELSE Insert(Head(q), SortSamples(Tail(q)))

\* np.percentile(arr, q), linear interpolation, in hundredths.
Percentile(arr, q) ==
    LET a == SortSamples(arr)
        h == (Len(a) - 1) * q
        lo == h \div 100 + 1
        frac == h % 100
    IN IF frac = 0 THEN <<100 * a[lo], 100>>
       ELSE <<100 * a[lo] + frac * (a[lo + 1] - a[lo]), 100>>

\* data-intel.py, 8-62.
parse_mutilate_file(log) ==
    LET fromLog == [i \in 1..3 |->
                      IF log.read >= i THEN <<ReadFields[i], 1>> ELSE NullQ]
        useLat == log.lat.exists /\ log.lat.samples # <<>>
        avg_lat == IF useLat
                   THEN <<SumSeq(log.lat.samples), Len(log.lat.samples)>>
                   ELSE fromLog[1]
        p90_lat == IF useLat THEN Percentile(log.lat.samples, 90) ELSE fromLog[2]
        p99_lat == IF useLat THEN Percentile(log.lat.samples, 99) ELSE fromLog[3]
    IN IF avg_lat = NullQ \/ p90_lat = NullQ \/ p99_lat = NullQ \/ log.qps = Null
       THEN [raised |-> TRUE, row |-> <<>>]
       ELSE [raised |-> FALSE, row |-> <<log.qps, avg_lat, p90_lat, p99_lat>>]

\* ------------------------------------------------- parse_powerstat_file
\* A power log: the <<util, power>> columns (fields 4 and 12) of the lines
\* from line start_index to the first line starting with '-' that have more
\* than 12 fields, and the number of lines after them.  A column that is not
\* a number is Bad.  Both routines extract the rows the same way.
PowerRows == [u : UtilValues \cup {Bad}, p : PowerValues \cup {Bad}]

PowerLogsOf(rows, n) ==
    [exists : {TRUE},
     tail : PowerTails,
     rows : UNION {[1..k -> rows] : k \in 0..n}]

NoPowerLog == [exists |-> FALSE, tail |-> 0, rows |-> <<>>]

ExampleLog ==
    [exists |-> TRUE, tail |-> 5,
     rows |-> [i \in 1..Len(ExampleSeries) |-> [u |-> 40, p |-> ExampleSeries[i]]]]

PowerLogs == PowerLogsOf(PowerRows, MaxPRows) \cup {NoPowerLog, ExampleLog}

\* The result of a parse: raised when the file could not be opened, else the
\* returned (average power, standard deviation, utilization), the standard
\* deviation as its square std2.
NoPower == [raised |-> FALSE, avg |-> NullQ, std2 |-> NullQ, util |-> NullQ]
PowerRaised == [raised |-> TRUE, avg |-> NullQ, std2 |-> NullQ, util |-> NullQ]

\* A column of a row: "u", "p", or the square of "p".
Col(r, c) == IF c = "p2" THEN r.p * r.p ELSE r[c]

RECURSIVE SumOf(_, _)
SumOf(q, c) == IF q = <<>> THEN 0 ELSE Col(Head(q), c) + SumOf(Tail(q), c)

\* n * sum(x^2) - sum(x)^2 = n^2 times the population variance.
SquaredDev(q) == Len(q) * SumOf(q, "p2") - SumOf(q, "p") * SumOf(q, "p")

\* parse_memtier_results.py, 129: float(u) appended before float(p) is tried.
UtilAppend(vals_util, r) == Append(vals_util, r)

\* parse_memtier_results.py, 125-132.
RECURSIVE MemtierVals(_, _, _)
MemtierVals(rows, vals_util, vals_power) ==
    IF rows = <<>> THEN [vals_util |-> vals_util, vals_power |-> vals_power]
    ELSE LET r == Head(rows)
         IN IF r.u = Bad THEN MemtierVals(Tail(rows), vals_util, vals_power)
            ELSE MemtierVals(Tail(rows), UtilAppend(vals_util, r),
                             IF r.p # Bad THEN Append(vals_power, r)
                             ELSE vals_power)

\* parse_memtier_results.py, 112-138.
parse_powerstat_file_memtier(f) ==
    LET v == MemtierVals(f.rows, <<>>, <<>>)
        np == Len(v.vals_power)
        nu == Len(v.vals_util)
    IN IF ~f.exists THEN PowerRaised
       ELSE IF start_index + Len(f.rows) + f.tail < MinLines THEN NoPower
       ELSE IF np = 0 THEN NoPower
       ELSE [raised |-> FALSE,
             avg |-> <<SumOf(v.vals_power, "p"), np>>,
             std2 |-> <<SquaredDev(v.vals_power), np * np>>,
             util |-> IF nu > 0 THEN <<100 * nu - SumOf(v.vals_util, "u"), nu>>
                      ELSE NullQ]

Numeric(r) == r.u # Bad /\ r.p # Bad

\* data-intel.py, 78-81: to_numeric and dropna.
DropNa(rows) == SelectSeq(rows, Numeric)

\* data-intel.py, 86: 0.9 * mean <= power <= 1.1 * mean, on integers; the
\* mean of an empty frame is NaN and nothing compares with it.
InBand(df) ==
    LET n == Len(df)
        total == SumOf(df, "p")
        Keep(r) == 10 * r.p * n >= 9 * total /\ 10 * r.p * n <= 11 * total
    IN SelectSeq(df, Keep)

\* A mean that raises on an empty frame, as sum / len does.
FrameStatsRaising(df) ==
    LET k == Len(df)
    IN [raised |-> k = 0,
        avg |-> IF k > 0 THEN <<SumOf(df, "p"), k>> ELSE NullQ,
        std2 |-> IF k > 1 THEN <<SquaredDev(df), k * (k - 1)>> ELSE NaNQ,
        util |-> IF k > 0 THEN <<100 * k - SumOf(df, "u"), k>> ELSE NullQ]

\* data-intel.py, 88-90: Series.mean and Series.std (ddof = 1) of the frame.
FrameStats(df) ==
    LET k == Len(df)
    IN [raised |-> FALSE,
        avg |-> IF k > 0 THEN <<SumOf(df, "p"), k>> ELSE NaNQ,
        std2 |-> IF k > 1 THEN <<SquaredDev(df), k * (k - 1)>> ELSE NaNQ,
        util |-> IF k > 0 THEN <<100 * k - SumOf(df, "u"), k>> ELSE NaNQ]

\* data-intel.py, 76-87: the frame the averages are taken over.
Retained(f) == InBand(DropNa(f.rows))

\* data-intel.py, 64-91.
parse_powerstat_file_intel(f) ==
    IF ~f.exists THEN PowerRaised ELSE FrameStats(Retained(f))

\* ------------------------------------------------- the batch entry points
\* The latency input of a rate point.  "absent": there is none (no qps_<rate>
\* directory, no mutilate_master_qps_<rate>.log).  "unparsed": the directory
\* holds no client log, the master log has no `read` line.  "parsed": one
\* client log with a full percentile summary, a full master log.
LatKinds == {"absent", "unparsed", "parsed"}

\* The power log of a rate point: absent, without a data row, with the
\* example series (no sample within the band), with five equal samples.
PowKinds == {"absent", "empty", "outliers", "steady"}

SteadyLog ==
    [exists |-> TRUE, tail |-> 5, rows |-> [i \in 1..5 |-> [u |-> 40, p |-> 10]]]

PowerLogOf(kind) ==
    CASE kind = "absent" -> NoPowerLog
      [] kind = "empty" -> [exists |-> TRUE, tail |-> 5, rows |-> <<>>]
      [] kind = "outliers" -> ExampleLog
      [] kind = "steady" -> SteadyLog

MutilateLogOf(kind) ==
    IF kind = "parsed"
    THEN [read |-> 3, qps |-> 1000, lat |-> [exists |-> FALSE, samples |-> <<>>]]
    ELSE [read |-> 0, qps |-> 1000, lat |-> [exists |-> FALSE, samples |-> <<>>]]

BatchFullRun ==
    [exists |-> TRUE, pcts |-> [p \in PctSet |-> IF p < 95 THEN 12 ELSE 15]]

\* int(s) of a rate field: ValueError (Null here) unless every character is
\* a digit.
RECURSIVE ToInt(_)
ToInt(name) ==
    IF name = <<>> THEN 0
    ELSE LET c == name[Len(name)]
             rest == ToInt(SubSeq(name, 1, Len(name) - 1))
         IN IF c > 9 \/ rest = Null THEN Null ELSE 10 * rest + c

IsInt(name) == name # <<>> /\ ToInt(name) # Null

\* a < b for two strings: character by character, a proper prefix first.
RECURSIVE LexLess(_, _)
LexLess(a, b) ==
    IF b = <<>> THEN FALSE
    ELSE IF a = <<>> THEN TRUE
    ELSE IF Head(a) # Head(b) THEN Head(a) < Head(b)
    ELSE LexLess(Tail(a), Tail(b))

\* sorted(run_dir.glob('qps_*')), 151: the paths compare as strings.
PathLess(a, b) == LexLess(a, b)

RECURSIVE SortedPaths(_)
SortedPaths(S) ==
    IF S = {} THEN <<>>
    ELSE LET m == CHOOSE x \in S : \A y \in S \ {x} : PathLess(x, y)
         IN <<m>> \o SortedPaths(S \ {m})

\* The row main() appends for a directory with one client log (163-208).
MemtierRow(name) ==
    LET pmax == MaxUpdate(NoPct, parse_full_run(BatchFullRun))
        pvals == PctVals(EmptyDict, pmax)
        avg == AvgLatency(MeanUs(EmptyDict), pvals)
    IN [Rate |-> name,
        Avg_Latency |-> AvgOut(avg),
        P90_Latency |-> PctOut(pvals[90]),
        P99_Latency |-> PctOut(pvals[99])]

\* main, 219-224: `if p:` is the truth value of the tuple, true for
\* (None, None, None).
WithPower(r, by_qps) ==
    LET p == IF r.Rate \in DOMAIN by_qps THEN by_qps[r.Rate] ELSE NoPower
    IN [Rate |-> r.Rate, Avg_Latency |-> r.Avg_Latency,
        P90_Latency |-> r.P90_Latency, P99_Latency |-> r.P99_Latency,
        Power |-> p.avg, StdDev |-> p.std2, Util |-> p.util]

\* results.sort(key=lambda x: int(x[0])), data-intel.py 137.
RECURSIVE InsertRow(_, _)
InsertRow(r, rows) ==
    IF rows = <<>> THEN <<r>>
    ELSE IF r.Rate < Head(rows).Rate THEN <<r>> \o rows
    ELSE <<Head(rows)>> \o InsertRow(r, Tail(rows))

RECURSIVE SortByRate(_)
SortByRate(rows) ==
    IF rows = <<>> THEN <<>>
    ELSE InsertRow(rows[Len(rows)], SortByRate(SubSeq(rows, 1, Len(rows) - 1)))

\* ------------------------------------------------------- redis_runner.py
\* Shards are numbered from 0; Python's list[shard] is element shard + 1.
\* Two clients where the code has len(CLIENTS).
HostOfTwo(shard) == CLIENTS[(shard % 2) + 1]

\* main, 156 and 171: host = CLIENTS[shard % len(CLIENTS)].
HostOf(shard) == CLIENTS[(shard % Len(CLIENTS)) + 1]

\* start_shard, 74, and main, 146: the server of a shard.
Server(shard) ==
    [shard |-> shard,
     port |-> REDIS_PORT_BASE + shard,
     core |-> REDIS_CORES_START + shard]

\* preload_shard, 85-96, and run_shard_qps, 99-118: the memtier command of a
\* shard, by the host it is sent to, its taskset slice and its server port.
MemtierCmd(shard) ==
    [shard |-> shard,
     host |-> HostOf(shard),
     slice |-> CORE_SLICES[shard + 1],
     port |-> REDIS_PORT_BASE + shard]

\* A pool left as soon as one future has completed.
JoinedFirst(returned) == returned >= 1

\* The calls counted for QPS point i in a dict of counters.
CountOf(d, i) == IF i \in DOMAIN d THEN d[i] ELSE 0

\* 161-162, 174-175 and the exit of the `with` block: every future of the
\* pool has completed.
Joined(returned) == returned = REDIS_SHARDS

\* ------------------------------------------------------------------- state
VARIABLES
    pc,             \* position in main()
    qps,            \* rate identifier of the qps_<rate> directory
    nlogs,          \* len(logs) of the directory
    li,             \* index of the client log being processed
    hleft,          \* histogram files of that log still to merge
    hdr,            \* SpecHdr: the histogram file given to parse_hdr_txt
    counts,         \* SpecHdr: parse_hdr_txt's counts of that file
    merged_counts,
    pct_max,
    pct_vals,
    mean_us,
    avg_latency,
    agg_rows,
    seen_counts,    \* history: per value, the sum of the files' counts
    seen_total,     \* history: the sum of the files' total counts
    seen_files,     \* history: the number of histogram files read
    seen_max,       \* history: per percentile, the largest summary value read
    mlog,           \* SpecMutilate: the log given to parse_mutilate_file
    mres,           \* SpecMutilate: what parse_mutilate_file did with it
    plog,           \* SpecPower: the log given to parse_powerstat_file
    vals_util,      \* SpecPower: the memtier routine's lists at its return,
    vals_power,     \*   as the rows the values were read from
    df,             \* SpecPower: the data-intel routine's frame at its return
    mem_power,      \* SpecPower: what the memtier routine returned
    intel_power,    \* SpecPower: what the data-intel routine returned
    tool,           \* SpecBatch: the aggregator run, "memtier" or "intel"
    dir,            \* SpecBatch: the run directory
    run_directory,  \* SpecBatch: first component of data-intel's argument
    qdirs,          \* SpecBatch: qps_<rate> directories still to read
    pfiles,         \* SpecBatch: power logs still to read (memtier)
    power_by_qps,
    mutilate_rates, \* SpecBatch: rates still to read (data-intel)
    results,
    written,        \* SpecBatch: the rows handed to the CSV writer
    escaped,        \* SpecBatch: an error left the entry point
    qps_list,       \* SpecRedis: QPS_LIST
    qi,             \* SpecRedis: index in QPS_LIST of the loop of line 165
    servers,        \* SpecRedis: the redis servers started
    cmds,           \* SpecRedis: the memtier commands submitted to the pool
    preload_started,    \* SpecRedis: preload_shard calls begun,
    preload_returned,   \*   and returned
    load_started,   \* SpecRedis: per QPS point, run_shard_qps calls begun,
    load_returned,  \*   and returned
    sampler,        \* SpecRedis: QPS points whose powerstat was started
    copied          \* SpecRedis: the log copy has started

seen == <<seen_counts, seen_total, seen_files, seen_max>>

mutilate == <<mlog, mres>>

power == <<plog, vals_util, vals_power, df, mem_power, intel_power>>

\* The state of the routines main() of parse_memtier_results.py does not run
\* while it reads one rate point.
batch == <<tool, dir, run_directory, qdirs, pfiles, power_by_qps,
           mutilate_rates, results, written, escaped>>

orchestrator == <<qps_list, qi, servers, cmds, preload_started,
                  preload_returned, load_started, load_returned, sampler,
                  copied>>

other_tools == <<mutilate, power, batch, orchestrator>>

vars == <<pc, qps, nlogs, li, hleft, hdr, counts, merged_counts, pct_max,
          pct_vals, mean_us, avg_latency, agg_rows, seen, mutilate, power,
          batch, orchestrator>>

NoHdr == [header |-> FALSE, rows |-> <<>>]

\* A run directory: for each rate field the latency input and the power log
\* named after it.
Dirs == [lat : [RateNames -> LatKinds], pow : [RateNames -> PowKinds]]
NoDir == [lat |-> [n \in RateNames |-> "absent"],
          pow |-> [n \in RateNames |-> "absent"]]

HdrFiles == HdrFilesOf(HdrValues, MaxRows, MaxCum)
RunHdrFiles == HdrFilesOf(RunValues, RunRows, RunCum)

\* Every Distribution over HdrValues with counts up to MaxCount.
Distributions == UNION {[S -> 0..MaxCount] : S \in SUBSET HdrValues}

PointwiseSum(a, b) ==
    [v \in DOMAIN a \cup DOMAIN b |->
        (IF v \in DOMAIN a THEN a[v] ELSE 0) + (IF v \in DOMAIN b THEN b[v] ELSE 0)]

SetMax(S) == CHOOSE x \in S : \A y \in S : y <= x

\* Null is below every latency, so the largest of {old, new} is the maximum
\* of the values reported so far.
SeenMax(smax, pfr) == [p \in PctSet |-> SetMax({smax[p], pfr[p]})]

Start(at) ==
    /\ pc = at
    /\ qps \in Rates
    /\ nlogs = 0
    /\ li = 0
    /\ hleft = 0
    /\ counts = EmptyDict
    /\ pct_max = NoPct
    /\ pct_vals = NoPct
    /\ mean_us = NullQ
    /\ avg_latency = NullQ
    /\ agg_rows = <<>>
    /\ seen_counts = EmptyDict
    /\ seen_total = 0
    /\ seen_files = 0
    /\ seen_max = NoPct
    /\ mres = NoResult
    /\ vals_util = <<>>
    /\ vals_power = <<>>
    /\ df = <<>>
    /\ mem_power = NoPower
    /\ intel_power = NoPower
    /\ qdirs = <<>>
    /\ pfiles = {}
    /\ power_by_qps = EmptyDict
    /\ mutilate_rates = <<>>
    /\ results = <<>>
    /\ written = <<>>
    /\ escaped = FALSE
    /\ qi = 1
    /\ servers = <<>>
    /\ cmds = {}
    /\ preload_started = 0
    /\ preload_returned = 0
    /\ load_started = EmptyDict
    /\ load_returned = EmptyDict
    /\ sampler = {}
    /\ copied = FALSE

\* main() entering the loop body of one qps_<rate> directory.
Init ==
    /\ Start("qdir")
    /\ hdr = NoHdr
    /\ merged_counts = EmptyDict
    /\ mlog = NoLog
    /\ plog = NoPowerLog
    /\ tool = "none"
    /\ dir = NoDir
    /\ run_directory = <<>>
    /\ qps_list = <<>>

\* Where the loop over logs goes once the histogram files of log li are done.
AfterLog(i, n) == IF i < n THEN "log" ELSE "estimate"

\* main, 155-161: the logs of the directory; none: `continue`.
GlobLogs ==
    /\ pc = "qdir"
    /\ \E n \in 0..MaxLogs :
          /\ nlogs' = n
          /\ IF n = 0
             THEN pc' = "done" /\ li' = li
             ELSE pc' = "log" /\ li' = 1
    /\ merged_counts' = EmptyDict
    /\ pct_max' = NoPct
    /\ UNCHANGED <<qps, hleft, hdr, counts, pct_vals, mean_us, avg_latency,
                   agg_rows, seen>>
    /\ UNCHANGED other_tools

\* main, 163-176: one client log and its percentile summary.  The sums
\* total_ops and total_misses (166-170) feed only the QPS and Misses columns
\* and are not part of the latency state modelled here.
ReadLog ==
    /\ pc = "log"
    /\ \E f \in FullRunFiles :
          /\ pct_max' = IF f.exists THEN MaxUpdate(pct_max, parse_full_run(f))
                        ELSE pct_max
          /\ seen_max' = SeenMax(seen_max, f.pcts)
    /\ pc' = "glob"
    /\ UNCHANGED <<qps, nlogs, li, hleft, hdr, counts, merged_counts, pct_vals,
                   mean_us, avg_latency, agg_rows, seen_counts, seen_total,
                   seen_files>>
    /\ UNCHANGED other_tools

\* main, 178: the list of the log's histogram files.
GlobHdr ==
    /\ pc = "glob"
    /\ \E k \in 0..MaxHdr :
          /\ hleft' = k
          /\ IF k = 0
             THEN /\ pc' = AfterLog(li, nlogs)
                  /\ li' = IF li < nlogs THEN li + 1 ELSE li
             ELSE pc' = "hdr" /\ li' = li
    /\ UNCHANGED <<qps, nlogs, hdr, counts, merged_counts, pct_max, pct_vals,
                   mean_us, avg_latency, agg_rows, seen>>
    /\ UNCHANGED other_tools

\* main, 179-182: one histogram file parsed and merged.
MergeHdr ==
    /\ pc = "hdr"
    /\ \E f \in RunHdrFiles :
          LET c == parse_hdr_txt(f).counts
          IN /\ merged_counts' = MergeCounts(merged_counts, c)
             /\ seen_counts' = PointwiseSum(seen_counts, c)
             /\ seen_total' = seen_total + Total(c)
    /\ seen_files' = seen_files + 1
    /\ hleft' = hleft - 1
    /\ IF hleft = 1
       THEN /\ pc' = AfterLog(li, nlogs)
            /\ li' = IF li < nlogs THEN li + 1 ELSE li
       ELSE pc' = "hdr" /\ li' = li
    /\ UNCHANGED <<qps, nlogs, hdr, counts, pct_max, pct_vals, mean_us,
                   avg_latency, agg_rows, seen_max>>
    /\ UNCHANGED other_tools

\* main, 184-194.
Estimate ==
    /\ pc = "estimate"
    /\ pct_vals' = PctVals(merged_counts, pct_max)
    /\ mean_us' = MeanUs(merged_counts)
    /\ avg_latency' = AvgLatency(MeanUs(merged_counts),
                                 PctVals(merged_counts, pct_max))
    /\ pc' = "emit"
    /\ UNCHANGED <<qps, nlogs, li, hleft, hdr, counts, merged_counts, pct_max,
                   agg_rows, seen>>
    /\ UNCHANGED other_tools

\* main, 196-208.
Emit ==
    /\ pc = "emit"
    /\ agg_rows' = Append(agg_rows,
          [Rate |-> qps,
           Avg_Latency |-> AvgOut(avg_latency),
           P90_Latency |-> PctOut(pct_vals[90]),
           P99_Latency |-> PctOut(pct_vals[99])])
    /\ pc' = "done"
    /\ UNCHANGED <<qps, nlogs, li, hleft, hdr, counts, merged_counts, pct_max,
                   pct_vals, mean_us, avg_latency, seen>>
    /\ UNCHANGED other_tools

Next == GlobLogs \/ ReadLog \/ GlobHdr \/ MergeHdr \/ Estimate \/ Emit

Spec == Init /\ [][Next]_vars

\* ------------------------------------------- parse_hdr_txt as a function
\* One histogram file, any of HdrFiles, parsed and merged into an empty
\* Distribution (main, 179-182, for the first file of a run).
InitHdr ==
    /\ Start("hdr")
    /\ hdr \in HdrFiles
    /\ merged_counts = EmptyDict
    /\ mlog = NoLog
    /\ plog = NoPowerLog
    /\ tool = "none"
    /\ dir = NoDir
    /\ run_directory = <<>>
    /\ qps_list = <<>>

ParseHdr ==
    /\ pc = "hdr"
    /\ counts' = parse_hdr_txt(hdr).counts
    /\ merged_counts' = MergeCounts(merged_counts, parse_hdr_txt(hdr).counts)
    /\ seen_files' = seen_files + 1
    /\ pc' = "merged"
    /\ UNCHANGED <<qps, nlogs, li, hleft, hdr, pct_max, pct_vals, mean_us,
                   avg_latency, agg_rows, seen_counts, seen_total, seen_max>>
    /\ UNCHANGED other_tools

NextHdr == ParseHdr

SpecHdr == InitHdr /\ [][NextHdr]_vars

\* ---------------------------------------- the estimator as a function
\* main, 184-208, entered with any merged Distribution of Distributions.
InitQuantile ==
    /\ Start("estimate")
    /\ hdr = NoHdr
    /\ merged_counts \in Distributions
    /\ mlog = NoLog
    /\ plog = NoPowerLog
    /\ tool = "none"
    /\ dir = NoDir
    /\ run_directory = <<>>
    /\ qps_list = <<>>

NextQuantile == Estimate \/ Emit

SpecQuantile == InitQuantile /\ [][NextQuantile]_vars

\* ------------------------------------ parse_mutilate_file as a function
\* collect_logs_from_directory, 116: the log of one rate, any of MutilateLogs.
InitMutilate ==
    /\ Start("mutilate")
    /\ hdr = NoHdr
    /\ merged_counts = EmptyDict
    /\ mlog \in MutilateLogs
    /\ plog = NoPowerLog
    /\ tool = "none"
    /\ dir = NoDir
    /\ run_directory = <<>>
    /\ qps_list = <<>>

ParseMutilate ==
    /\ pc = "mutilate"
    /\ mres' = parse_mutilate_file(mlog)
    /\ pc' = "parsed"
    /\ UNCHANGED <<qps, nlogs, li, hleft, hdr, counts, merged_counts, pct_max,
                   pct_vals, mean_us, avg_latency, agg_rows, seen, mlog>>
    /\ UNCHANGED <<power, batch, orchestrator>>

NextMutilate == ParseMutilate

SpecMutilate == InitMutilate /\ [][NextMutilate]_vars

\* ---------------------------------- parse_powerstat_file as a function
\* One power log, any of PowerLogs, given to the routine of each aggregator.
InitPower ==
    /\ Start("power")
    /\ hdr = NoHdr
    /\ merged_counts = EmptyDict
    /\ mlog = NoLog
    /\ plog \in PowerLogs
    /\ tool = "none"
    /\ dir = NoDir
    /\ run_directory = <<>>
    /\ qps_list = <<>>

latency == <<qps, nlogs, li, hleft, hdr, counts, merged_counts, pct_max,
             pct_vals, mean_us, avg_latency, agg_rows, seen>>

\* parse_memtier_results.py, 214.
ParsePowerMemtier ==
    /\ pc = "power"
    /\ mem_power' = parse_powerstat_file_memtier(plog)
    /\ vals_util' = IF plog.exists
                    THEN MemtierVals(plog.rows, <<>>, <<>>).vals_util ELSE <<>>
    /\ vals_power' = IF plog.exists
                     THEN MemtierVals(plog.rows, <<>>, <<>>).vals_power ELSE <<>>
    /\ pc' = "power_intel"
    /\ UNCHANGED <<latency, mutilate, plog, df, intel_power, batch,
                   orchestrator>>

\* data-intel.py, 117.
ParsePowerIntel ==
    /\ pc = "power_intel"
    /\ intel_power' = parse_powerstat_file_intel(plog)
    /\ df' = IF plog.exists THEN Retained(plog) ELSE <<>>
    /\ pc' = "parsed"
    /\ UNCHANGED <<latency, mutilate, plog, vals_util, vals_power, mem_power,
                   batch, orchestrator>>

NextPower == ParsePowerMemtier \/ ParsePowerIntel

SpecPower == InitPower /\ [][NextPower]_vars

\* ----------------------------------------------- the batch entry points
\* main() of parse_memtier_results.py or the __main__ block of data-intel.py
\* run on a directory of Dirs.  data-intel.py's os.walk visits one directory.
InitBatch ==
    /\ Start("start")
    /\ hdr = NoHdr
    /\ merged_counts = EmptyDict
    /\ mlog = NoLog
    /\ plog = NoPowerLog
    /\ tool \in {"memtier", "intel"}
    /\ dir \in Dirs
    /\ run_directory \in (IF tool = "intel" THEN RunDirectories ELSE {<<>>})
    /\ qps_list = <<>>

not_batch == <<qps, nlogs, li, hleft, hdr, counts, merged_counts, pct_max,
               pct_vals, mean_us, avg_latency, seen, mutilate, power,
               orchestrator>>

PowerFiles == {n \in RateNames : dir.pow[n] # "absent"}

\* main, 148-151: the sorted list of the qps_<rate> directories.
MemtierGlob ==
    /\ pc = "start" /\ tool = "memtier"
    /\ qdirs' = SortedPaths({n \in RateNames : dir.lat[n] # "absent"})
    /\ pc' = "qdir"
    /\ UNCHANGED <<not_batch, agg_rows, tool, dir, run_directory, pfiles,
                   power_by_qps, mutilate_rates, results, written, escaped>>

\* main, 151-208: one directory; without a client log, `continue`.  After the
\* last one, 212: the glob of the power logs.
MemtierQdir ==
    /\ pc = "qdir" /\ tool = "memtier"
    /\ IF qdirs = <<>>
       THEN /\ pfiles' = PowerFiles
            /\ pc' = "power"
            /\ UNCHANGED <<qdirs, agg_rows>>
       ELSE /\ agg_rows' = IF dir.lat[Head(qdirs)] = "parsed"
                           THEN Append(agg_rows, MemtierRow(Head(qdirs)))
                           ELSE agg_rows
            /\ qdirs' = Tail(qdirs)
            /\ UNCHANGED <<pc, pfiles>>
    /\ UNCHANGED <<not_batch, tool, dir, run_directory, power_by_qps,
                   mutilate_rates, results, written, escaped>>

\* main, 212-218: one power log, in the order the glob yields them.
MemtierPower ==
    /\ pc = "power" /\ tool = "memtier"
    /\ pfiles # {}
    /\ \E n \in pfiles :
          LET p == parse_powerstat_file_memtier(PowerLogOf(dir.pow[n]))
          IN /\ power_by_qps' =
                   IF p.raised THEN power_by_qps
                   ELSE [k \in DOMAIN power_by_qps \cup {n} |->
                            IF k = n THEN p ELSE power_by_qps[k]]
             /\ pfiles' = pfiles \ {n}
    /\ UNCHANGED <<not_batch, agg_rows, pc, tool, dir, run_directory, qdirs,
                   mutilate_rates, results, written, escaped>>

\* main, 219-233: the power fields of every row, and the rows written.
MemtierWrite ==
    /\ pc = "power" /\ tool = "memtier"
    /\ pfiles = {}
    /\ agg_rows' = [i \in 1..Len(agg_rows) |-> WithPower(agg_rows[i], power_by_qps)]
    /\ written' = [i \in 1..Len(agg_rows) |-> WithPower(agg_rows[i], power_by_qps)]
    /\ pc' = "done"
    /\ UNCHANGED <<not_batch, tool, dir, run_directory, qdirs, pfiles,
                   power_by_qps, mutilate_rates, results, escaped>>

\* data-intel.py, 95-110: the rates of the file names; int() is outside any
\* try, its ValueError leaves collect_logs_from_directory and the program.
IntelWalk ==
    /\ pc = "start" /\ tool = "intel"
    /\ LET mutilate_files == {n \in RateNames : dir.lat[n] # "absent"}
       IN IF \E n \in mutilate_files \cup PowerFiles : ~IsInt(n)
          THEN /\ escaped' = TRUE
               /\ pc' = "done"
               /\ UNCHANGED mutilate_rates
          ELSE /\ mutilate_rates' = SortedSeq({ToInt(n) : n \in mutilate_files})
               /\ pc' = "rate"
               /\ UNCHANGED escaped
    /\ UNCHANGED <<not_batch, agg_rows, tool, dir, run_directory, qdirs,
                   pfiles, power_by_qps, results, written>>

\* The file name f"..._{rate}..." of a rate.
NameOf(rate) == CHOOSE n \in RateNames : ToInt(n) = rate

\* data-intel.py, 112-121: one rate; a ValueError or FileNotFoundError of
\* either parse drops it.
IntelRate ==
    /\ pc = "rate" /\ tool = "intel"
    /\ mutilate_rates # <<>>
    /\ LET rate == Head(mutilate_rates)
           m == parse_mutilate_file(MutilateLogOf(dir.lat[NameOf(rate)]))
           p == parse_powerstat_file_intel(PowerLogOf(dir.pow[NameOf(rate)]))
       IN results' = IF m.raised \/ p.raised THEN results
                     ELSE Append(results,
                            [Rate |-> rate, QPS |-> m.row[1],
                             Avg_Latency |-> m.row[2], P90_Latency |-> m.row[3],
                             P99_Latency |-> m.row[4],
                             Power |-> p.avg, StdDev |-> p.std2, Util |-> p.util])
    /\ mutilate_rates' = Tail(mutilate_rates)
    /\ UNCHANGED <<not_batch, agg_rows, pc, tool, dir, run_directory, qdirs,
                   pfiles, power_by_qps, written, escaped>>

\* data-intel.py, 135-138: machine_name is part [2] of the first component
\* (IndexError with fewer than three parts), then the sort, then write_csv.
IntelMain ==
    /\ pc = "rate" /\ tool = "intel"
    /\ mutilate_rates = <<>>
    /\ IF Len(run_directory) < 3
       THEN escaped' = TRUE /\ UNCHANGED <<results, written>>
       ELSE /\ results' = SortByRate(results)
            /\ written' = SortByRate(results)
            /\ UNCHANGED escaped
    /\ pc' = "done"
    /\ UNCHANGED <<not_batch, agg_rows, tool, dir, run_directory, qdirs,
                   pfiles, power_by_qps, mutilate_rates>>

NextBatch ==
    \/ MemtierGlob \/ MemtierQdir \/ MemtierPower \/ MemtierWrite
    \/ IntelWalk \/ IntelRate \/ IntelMain

SpecBatch == InitBatch /\ [][NextBatch]_vars

\* -------------------------------------------------- the redis orchestrator
\* main() of redis_runner.py.  A pool task is counted when it is submitted
\* (cmds), when its worker begins the ssh call, and when the call returns;
\* ssh() never raises (subprocess.run without check).
InitRedis ==
    /\ Start("shards")
    /\ hdr = NoHdr
    /\ merged_counts = EmptyDict
    /\ mlog = NoLog
    /\ plog = NoPowerLog
    /\ tool = "none"
    /\ dir = NoDir
    /\ run_directory = <<>>
    /\ qps_list \in QpsLists

not_redis == <<latency, mutilate, power, batch>>

\* main, 145-150: one start_shard; after the last one, the sleep.
StartShard ==
    /\ pc = "shards"
    /\ servers' = Append(servers, Server(Len(servers)))
    /\ pc' = IF Len(servers) + 1 = REDIS_SHARDS THEN "preload" ELSE "shards"
    /\ UNCHANGED <<not_redis, qps_list, qi, cmds, preload_started,
                   preload_returned, load_started, load_returned, sampler,
                   copied>>

\* main, 155-160: ex.submit(preload_shard, shard, host, ...).
SubmitPreload ==
    /\ pc = "preload"
    /\ Cardinality(cmds) < REDIS_SHARDS
    /\ cmds' = cmds \cup {MemtierCmd(Cardinality(cmds))}
    /\ UNCHANGED <<not_redis, pc, qps_list, qi, servers, preload_started,
                   preload_returned, load_started, load_returned, sampler,
                   copied>>

\* A worker of the pool begins preload_shard, 84-96.
PreloadShard ==
    /\ pc = "preload"
    /\ preload_started < Cardinality(cmds)
    /\ preload_started' = preload_started + 1
    /\ UNCHANGED <<not_redis, pc, qps_list, qi, servers, cmds,
                   preload_returned, load_started, load_returned, sampler,
                   copied>>

\* Its ssh call returns.
PreloadReturns ==
    /\ pc = "preload"
    /\ preload_returned < preload_started
    /\ preload_returned' = preload_returned + 1
    /\ UNCHANGED <<not_redis, pc, qps_list, qi, servers, cmds,
                   preload_started, load_started, load_returned, sampler,
                   copied>>

\* main, 161-162 and the end of the `with` block.
JoinPreload ==
    /\ pc = "preload"
    /\ Cardinality(cmds) = REDIS_SHARDS
    /\ Joined(preload_returned)
    /\ cmds' = {}
    /\ pc' = "qps"
    /\ UNCHANGED <<not_redis, qps_list, qi, servers, preload_started,
                   preload_returned, load_started, load_returned, sampler,
                   copied>>

\* main, 165-167: start_powerstat(qps) and the sleep.
StartPowerstat ==
    /\ pc = "qps"
    /\ qi <= Len(qps_list)
    /\ sampler' = sampler \cup {qi}
    /\ pc' = "load"
    /\ UNCHANGED <<not_redis, qps_list, qi, servers, cmds, preload_started,
                   preload_returned, load_started, load_returned, copied>>

\* main, 170-173: ex.submit(run_shard_qps, shard, host, prefix, qps, params).
SubmitLoad ==
    /\ pc = "load"
    /\ Cardinality(cmds) < REDIS_SHARDS
    /\ cmds' = cmds \cup {MemtierCmd(Cardinality(cmds))}
    /\ UNCHANGED <<not_redis, pc, qps_list, qi, servers, preload_started,
                   preload_returned, load_started, load_returned, sampler,
                   copied>>

\* A worker of the pool begins run_shard_qps, 98-118.
RunShardQps ==
    /\ pc = "load"
    /\ CountOf(load_started, qi) < Cardinality(cmds)
    /\ load_started' = DictAdd(load_started, qi, 1)
    /\ UNCHANGED <<not_redis, pc, qps_list, qi, servers, cmds,
                   preload_started, preload_returned, load_returned, sampler,
                   copied>>

\* Its ssh call returns.
LoadReturns ==
    /\ pc = "load"
    /\ CountOf(load_returned, qi) < CountOf(load_started, qi)
    /\ load_returned' = DictAdd(load_returned, qi, 1)
    /\ UNCHANGED <<not_redis, pc, qps_list, qi, servers, cmds,
                   preload_started, preload_returned, load_started, sampler,
                   copied>>

\* main, 174-175 and the end of the `with` block; the next QPS point.
JoinLoad ==
    /\ pc = "load"
    /\ Cardinality(cmds) = REDIS_SHARDS
    /\ Joined(CountOf(load_returned, qi))
    /\ cmds' = {}
    /\ qi' = qi + 1
    /\ pc' = "qps"
    /\ UNCHANGED <<not_redis, qps_list, servers, preload_started,
                   preload_returned, load_started, load_returned, sampler,
                   copied>>

\* main, 177-182: the scp calls.
CopyLogs ==
    /\ pc = "qps"
    /\ qi > Len(qps_list)
    /\ copied' = TRUE
    /\ pc' = "done"
    /\ UNCHANGED <<not_redis, qps_list, qi, servers, cmds, preload_started,
                   preload_returned, load_started, load_returned, sampler>>

NextRedis ==
    \/ StartShard
    \/ SubmitPreload \/ PreloadShard \/ PreloadReturns \/ JoinPreload
    \/ StartPowerstat
    \/ SubmitLoad \/ RunShardQps \/ LoadReturns \/ JoinLoad
    \/ CopyLogs

SpecRedis == InitRedis /\ [][NextRedis]_vars

\* ------------------------------------------------------------------ claims
\* The only row of agg_rows, once written.
Row == agg_rows[1]
Emitted == pc = "done" /\ Len(agg_rows) = 1

\* Sum of the counts of the values of d that are at most v.
CumAtMost(d, v) == SumFun(d, {k \in DOMAIN d : k <= v})

\* ceil(p * total / 100), by its defining inequalities.
RankTarget(p, total) ==
    CHOOSE t \in 0..total : 100 * t >= p * total /\ 100 * (t - 1) < p * total

\* r is the nearest-rank p-th percentile of d.
NearestRank(d, p, r) ==
    /\ r \in DOMAIN d
    /\ CumAtMost(d, r) >= RankTarget(p, Total(d))
    /\ \A v \in DOMAIN d : v < r => CumAtMost(d, v) < RankTarget(p, Total(d))

\* C1: for every Distribution with total count > 0 and every p of PCTS, the
\* percentile the estimator computes is a key of the Distribution and is the
\* smallest value whose cumulative count reaches ceil(p * total / 100).
C1_NearestRank ==
    (pc # "estimate" /\ Total(merged_counts) > 0)
        => \A p \in PctSet : NearestRank(merged_counts, p, pct_vals[p])

\* The histogram [(100,5),(200,12),(300,20)]: counts 5, 7, 8, total 20,
\* p50 (target 10) is 200 and p99 (target 20) is 300.
C1_Witness ==
    /\ pc = "emit"
    /\ merged_counts = [v \in {100, 200, 300} |->
                           IF v = 100 THEN 5 ELSE IF v = 200 THEN 7 ELSE 8]
    /\ pct_vals[50] = 200
    /\ pct_vals[99] = 300

\* C2: the percentiles computed from a non-empty Distribution are ordered,
\* p50 <= p90 <= p95 <= p99, and all four exist once the total is positive.
C2_Monotone ==
    (pc # "estimate" /\ Total(merged_counts) > 0)
        => /\ pct_vals[50] # Null
           /\ pct_vals[50] <= pct_vals[90]
           /\ pct_vals[90] <= pct_vals[95]
           /\ pct_vals[95] <= pct_vals[99]

\* Four different percentiles, as for the counts 10, 8, 1, 1 of 100..400.
C2_Witness ==
    /\ pc = "emit"
    /\ pct_vals[50] # Null
    /\ pct_vals[50] < pct_vals[90]
    /\ pct_vals[90] < pct_vals[95]
    /\ pct_vals[95] < pct_vals[99]

\* The delta of row i, straight from the rows.
RowDelta(rows, i) ==
    LET before == IF i = 1 THEN 0 ELSE rows[i - 1][2]
    IN IF rows[i][2] > before THEN rows[i][2] - before ELSE 0

\* Per value, the sum of the deltas of the rows that carry it.
RowSums(f) ==
    [v \in {f.rows[i][1] : i \in 1..Len(f.rows)} |->
        LET idx == {i \in 1..Len(f.rows) : f.rows[i][1] = v}
        IN SumFun([i \in idx |-> RowDelta(f.rows, i)], idx)]

\* C3: parse_hdr_txt gives each row's value max(0, cumulative count - previous
\* cumulative count), summed over the rows of that value, also when the
\* cumulative counts decrease; no count of the file's Distribution or of the
\* Distribution it is merged into is negative.
C3_ClampedDeltas ==
    pc = "merged"
        => /\ counts = (IF hdr.header THEN RowSums(hdr) ELSE EmptyDict)
           /\ \A v \in DOMAIN counts : counts[v] >= 0
           /\ \A v \in DOMAIN merged_counts : merged_counts[v] >= 0

\* A file whose cumulative count decreases and then rises again.
C3_Witness ==
    /\ pc = "merged"
    /\ hdr.header
    /\ Len(hdr.rows) = 3
    /\ hdr.rows[2][2] < hdr.rows[1][2]
    /\ hdr.rows[3][2] > hdr.rows[2][2]
    /\ hdr.rows[1][1] = hdr.rows[3][1]

\* C4: the merged Distribution holds, per value, the sum of the merged
\* histograms' counts of that value; its total count is the sum of their total
\* counts; with no histogram merged it is empty.
C4_MergeSums ==
    /\ merged_counts = seen_counts
    /\ Total(merged_counts) = seen_total
    /\ seen_files = 0 => merged_counts = EmptyDict

\* Two histograms with a common value, each counting it once.
C4_Witness ==
    /\ pc = "done"
    /\ seen_files = 2
    /\ DOMAIN merged_counts = {100}
    /\ merged_counts[100] = 2

\* The Distributions parse_hdr_txt returns for the histogram files of a run.
RunDists == {parse_hdr_txt(f).counts : f \in RunHdrFiles}

SummaryOnce(x) == IF x # Null THEN x * 1000 ELSE Null

\* C6 (as claimed): in summary fallback mode each reported percentile is the
\* maximum of the clients' summary values times 1000 (p99 of 12 ms and 15 ms
\* gives 15000).
C6_ConvertedOnce ==
    (Emitted /\ merged_counts = EmptyDict)
        => /\ Row.P90_Latency = SummaryOnce(seen_max[90])
           /\ Row.P99_Latency = SummaryOnce(seen_max[99])

\* C7 (as claimed): in distribution mode the emitted mean, p90 and p99 are
\* those of the merged Distribution, in the unit of its values.
C7_NoRescaling ==
    (Emitted /\ Total(merged_counts) > 0)
        => /\ Row.Avg_Latency = mean_from_counts(merged_counts)
           /\ Row.P90_Latency = quantile_from_counts(merged_counts, 90)
           /\ Row.P99_Latency = quantile_from_counts(merged_counts, 99)

\* The row computed from the merged Distribution alone.
DistRow(rate, merged) ==
    [Rate |-> rate,
     Avg_Latency |-> AvgOut(mean_from_counts(merged)),
     P90_Latency |-> PctOut(quantile_from_counts(merged, 90)),
     P99_Latency |-> PctOut(quantile_from_counts(merged, 99))]

\* The row computed from the clients' summaries alone.
SummaryRow(rate, smax) ==
    [Rate |-> rate,
     Avg_Latency |-> IF smax[50] # Null
                     THEN AvgOut(<<smax[50] * 1000, 1>>) ELSE NullQ,
     P90_Latency |-> PctOut(SummaryOnce(smax[90])),
     P99_Latency |-> PctOut(SummaryOnce(smax[99]))]

\* C8: the row is computed from the merged Distribution alone whenever that
\* Distribution is non-empty, and from the summaries alone exactly when it is
\* empty, as when every histogram file read lacks the Value header.
C8_ModeSelection ==
    Emitted
        => /\ merged_counts # EmptyDict => Row = DistRow(qps, merged_counts)
           /\ merged_counts = EmptyDict => Row = SummaryRow(qps, seen_max)

\* Histogram files were read, none gave a row, and the summaries are used.
C8_Witness ==
    /\ Emitted
    /\ seen_files = 2
    /\ merged_counts = EmptyDict
    /\ Row.P99_Latency # Null
    /\ Row.Avg_Latency # NullQ

\* The factors a unit conversion may apply.
UnitFactors == {1, 1000, 1000000}

\* C9: in summary fallback mode the mean is null exactly when no client
\* reports p50, and is otherwise the largest p50 reported, under the
\* conversion that p90 and p99 get.
C9_MeanIsP50 ==
    (Emitted /\ merged_counts = EmptyDict)
        => /\ Row.Avg_Latency = NullQ <=> seen_max[50] = Null
           /\ seen_max[50] # Null =>
                \E k \in UnitFactors :
                   /\ Row.Avg_Latency = <<k * seen_max[50], 1>>
                   /\ Row.P90_Latency = (IF seen_max[90] # Null
                                         THEN k * seen_max[90] ELSE Null)
                   /\ Row.P99_Latency = (IF seen_max[99] # Null
                                         THEN k * seen_max[99] ELSE Null)

\* Two clients report p50, the larger is the mean; p90 and p99 differ from it.
C9_Witness ==
    /\ Emitted
    /\ nlogs = 2
    /\ merged_counts = EmptyDict
    /\ seen_max[50] = 12
    /\ seen_max[90] = 15
    /\ Row.Avg_Latency # NullQ
    /\ Row.Avg_Latency[1] * 15 = Row.P90_Latency * 12

\* C10 (as claimed): a discovered rate point always gets a row, with null
\* latency fields when its sources give no latency data.
C10_AlwaysEmitted ==
    pc = "done"
        => /\ Len(agg_rows) = 1
           /\ (Total(merged_counts) = 0 /\ seen_max = NoPct)
                 => /\ Row.Avg_Latency = NullQ
                    /\ Row.P90_Latency = Null
                    /\ Row.P99_Latency = Null

\* C10, mutilate aggregator (as claimed, under SpecMutilate): a log without
\* latency data does not make parse_mutilate_file raise, so that
\* collect_logs_from_directory (115-121) can append a row for its rate.
C10_MutilateReturns ==
    (pc = "parsed" /\ mlog.qps # Null) => ~mres.raised

\* --------------------------------------------------- claims, power logs
\* The samples of a power log: the rows both columns of which parse.
Parsed(f) == SelectSeq(f.rows, Numeric)

\* The samples within 10% of the mean power m of all parsed samples:
\* 0.9 * m <= p <= 1.1 * m with m = sum / n, on integers.
WithinBand(f) ==
    LET n == Len(Parsed(f))
        total == SumOf(Parsed(f), "p")
        Within(r) == 10 * n * r.p >= 9 * total /\ 10 * n * r.p <= 11 * total
    IN SelectSeq(Parsed(f), Within)

\* A float None or NaN.
IsNull(x) == x = NullQ \/ x = NaNQ

\* x is the mean of column c of rows (null when there is none).
MeanOf(x, rows, c) ==
    IF rows = <<>> THEN IsNull(x)
    ELSE ~IsNull(x) /\ x[1] * Len(rows) = x[2] * SumOf(rows, c)

\* x is 100 minus the mean of the utilization column of rows.
BusyOf(x, rows) ==
    IF rows = <<>> THEN IsNull(x)
    ELSE ~IsNull(x) /\ x[1] * Len(rows) = x[2] * (100 * Len(rows) - SumOf(rows, "u"))

\* x is the square of the standard deviation of the power of rows, with
\* either divisor (N or N - 1; N - 1 gives NaN for one row).
Std2Of(x, rows) ==
    LET k == Len(rows)
    IN \/ IsNull(x) /\ k < 2
       \/ ~IsNull(x) /\ k > 0 /\ x[1] * k * k = x[2] * SquaredDev(rows)
       \/ ~IsNull(x) /\ k > 1 /\ x[1] * k * (k - 1) = x[2] * SquaredDev(rows)

\* The triple res is computed over rows.
StatsOver(res, rows) ==
    /\ MeanOf(res.avg, rows, "p")
    /\ Std2Of(res.std2, rows)
    /\ BusyOf(res.util, rows)

\* The memtier routine got to its averages (lines 135-138).
MemtierAveraged ==
    /\ plog.exists
    /\ start_index + Len(plog.rows) + plog.tail >= MinLines
    /\ vals_power # <<>>

\* C11 (as claimed): in each aggregator's routine the reported average
\* power, standard deviation and utilization are those of the samples whose
\* power lies within 10% of the mean power of all parsed samples.
C11_FilteredStats ==
    (pc = "parsed" /\ plog.exists)
        => /\ StatsOver(intel_power, WithinBand(plog))
           /\ MemtierAveraged => StatsOver(mem_power, WithinBand(plog))

\* C11, the mutilate aggregator alone (holds).
C11_IntelFiltered ==
    (pc = "parsed" /\ plog.exists) => StatsOver(intel_power, WithinBand(plog))

\* C12 (as claimed): for the series 10, 10, 10, 10, 100 W the averager of
\* data-intel.py drops the 100 W sample alone and reports a mean of 10 and a
\* standard deviation of 0.
C12_ExampleSeries ==
    (pc = "parsed" /\ plog = ExampleLog)
        => /\ Len(df) = 4
           /\ \A i \in 1..Len(df) : df[i].p = 10
           /\ ~IsNull(intel_power.avg)
           /\ intel_power.avg[1] = 10 * intel_power.avg[2]
           /\ ~IsNull(intel_power.std2)
           /\ intel_power.std2[1] = 0

\* C12, what the code does with the series: the raw mean is 28, the band is
\* [25.2, 30.8], no sample is within it and the three values are NaN.
C12_AllRemoved ==
    (pc = "parsed" /\ plog = ExampleLog)
        => /\ df = <<>>
           /\ intel_power = [raised |-> FALSE, avg |-> NaNQ, std2 |-> NaNQ,
                             util |-> NaNQ]

\* ------------------------------------------- claims, batch entry points
\* The Rate column of the record of the rate point named n.
RateOf(n) == IF tool = "intel" THEN ToInt(n) ELSE n

\* The records of rate point n among the rows handed to the writer.
RecordsOf(n) == {i \in 1..Len(written) : written[i].Rate = RateOf(n)}

\* The entry point ran to its end and handed its rows to the writer.
Finished == pc = "done" /\ ~escaped

\* The latency inputs of rate point n parse.
LatencyParses(n) == dir.lat[n] = "parsed"

\* The samples the routine of the aggregator run takes its averages over.
RetainedBy(t, f) ==
    IF t = "intel" THEN Retained(f)
    ELSE IF start_index + Len(f.rows) + f.tail < MinLines THEN <<>>
    ELSE MemtierVals(f.rows, <<>>, <<>>).vals_power

NullPower(r) == IsNull(r.Power) /\ IsNull(r.StdDev) /\ IsNull(r.Util)

C13_WitnessMemtier ==
    /\ Finished
    /\ tool = "memtier"
    /\ dir.lat[<<9>>] = "parsed"
    /\ dir.pow[<<9>>] = "empty"
    /\ \E i \in RecordsOf(<<9>>) : written[i].Power = NullQ

\* The rate of a written row as a number (Null: its rate field is no number).
RateNum(r) == IF tool = "intel" THEN r.Rate ELSE ToInt(r.Rate)

Ascending ==
    \A i, j \in 1..Len(written) :
        (i < j /\ RateNum(written[i]) # Null /\ RateNum(written[j]) # Null)
            => RateNum(written[i]) <= RateNum(written[j])

\* C14 (as claimed): the rows each aggregator hands to the CSV writer are in
\* ascending numeric order of rate.
C14_AscendingRates == Finished => Ascending

\* C14, the mutilate aggregator alone (holds: the sort of line 137).
C14_IntelAscending == (Finished /\ tool = "intel") => Ascending

\* The mutilate aggregator wrote the rows of rates 9 and 100, in that order.
C14_IntelWitness ==
    /\ Finished
    /\ tool = "intel"
    /\ Len(written) = 2
    /\ written[1].Rate = 9
    /\ written[2].Rate = 100

\* What the routine of the aggregator run returns for the power log of n.
PowerOf(n) ==
    IF tool = "intel" THEN parse_powerstat_file_intel(PowerLogOf(dir.pow[n]))
    ELSE parse_powerstat_file_memtier(PowerLogOf(dir.pow[n]))

\* Row r carries the power fields of the log of rate point n, null ones when
\* there is no such log.
PowerMatches(r, n) ==
    IF dir.pow[n] = "absent" THEN NullPower(r)
    ELSE /\ r.Power = PowerOf(n).avg
         /\ r.StdDev = PowerOf(n).std2
         /\ r.Util = PowerOf(n).util

Matched ==
    \A n \in RateNames :
        LatencyParses(n)
            => /\ RecordsOf(n) # {}
               /\ \A i \in RecordsOf(n) :
                     /\ PowerMatches(written[i], n)
                     /\ ~IsNull(written[i].Avg_Latency)

\* C15 (as claimed): in either aggregator a rate point whose latency inputs
\* parse has a record; its power fields are those of the power log of the
\* same rate identifier, or null when there is no such log.
C15_PowerMatched == Finished => Matched

\* C15, the memtier aggregator alone (holds).
C15_MemtierMatched == (Finished /\ tool = "memtier") => Matched

\* The memtier aggregator wrote rate 9 without a power log and rate 100 with
\* the fields of its own log.
C15_MemtierWitness ==
    /\ Finished
    /\ tool = "memtier"
    /\ dir.lat[<<9>>] = "parsed" /\ dir.pow[<<9>>] = "absent"
    /\ dir.lat[<<1, 0, 0>>] = "parsed" /\ dir.pow[<<1, 0, 0>>] = "steady"
    /\ \E i \in RecordsOf(<<1, 0, 0>>) : written[i].Power = <<50, 5>>
    /\ \E i \in RecordsOf(<<9>>) : written[i].Power = NullQ

\* The inputs of rate point n itself parse: its latency input, its power log
\* and, where the aggregator reads the rate as a number, its rate field.
OwnInputsParse(n) ==
    /\ LatencyParses(n)
    /\ dir.pow[n] # "absent"
    /\ tool = "intel" => IsInt(n)

NoErrorEscapes ==
    pc = "done"
        => /\ ~escaped
           /\ \A n \in RateNames : OwnInputsParse(n) => RecordsOf(n) # {}

\* C16 (as claimed): whatever the directory holds, no error leaves the batch
\* entry point, and every rate point whose own inputs parse has a record.
C16_NoErrorEscapes == NoErrorEscapes

\* C16, the memtier aggregator alone (holds).
C16_MemtierFinishes == tool = "memtier" => NoErrorEscapes

\* The memtier aggregator wrote the record of rate 100 next to a directory
\* qps_x without a client log and a power log without a data row.
C16_MemtierWitness ==
    /\ pc = "done"
    /\ tool = "memtier"
    /\ dir.lat[<<Letter>>] = "unparsed"
    /\ dir.pow[<<9>>] = "empty"
    /\ OwnInputsParse(<<1, 0, 0>>)
    /\ RecordsOf(<<1, 0, 0>>) # {}

\* ------------------------------------------ claims, the two power parsers
\* Two quotients are the same number, or both null (None or NaN).
SameQ(a, b) ==
    IF IsNull(a) \/ IsNull(b) THEN IsNull(a) /\ IsNull(b)
    ELSE a[1] * b[2] = b[1] * a[2]

SameTriple(a, b) ==
    /\ a.raised = b.raised
    /\ SameQ(a.avg, b.avg)
    /\ SameQ(a.std2, b.std2)
    /\ SameQ(a.util, b.util)

\* C17 (as claimed): on every power log the routine of the memtier
\* aggregator returns the triple the routine of the mutilate aggregator
\* returns.
C17_SameTriple == pc = "parsed" => SameTriple(mem_power, intel_power)

\* C17, where the two do agree: a log of at least MinLines lines whose
\* samples all parse and carry the same power, two of them or more.
C17_SameOnSteady ==
    (/\ pc = "parsed"
     /\ plog.exists
     /\ start_index + Len(plog.rows) + plog.tail >= MinLines
     /\ Len(plog.rows) >= 2
     /\ \A i \in 1..Len(plog.rows) :
           Numeric(plog.rows[i]) /\ plog.rows[i].p = plog.rows[1].p)
        => SameTriple(mem_power, intel_power)

\* C20 (as claimed): the memtier routine averages utilization and power
\* over the same rows.
C20_SameRows ==
    (pc \in {"power_intel", "parsed"} /\ MemtierAveraged)
        => vals_util = vals_power

\* ------------------------------------------------ claims, the orchestrator
\* C18: two memtier commands of different shards sent to the same client
\* host are pinned to different core slices, and the servers started have
\* pairwise different ports and pairwise different cores.
C18_DistinctSlices ==
    /\ \A c, d \in cmds :
          (c.shard # d.shard /\ c.host = d.host) => c.slice # d.slice
    /\ \A i, j \in 1..Len(servers) :
          i # j => /\ servers[i].port # servers[j].port
                   /\ servers[i].core # servers[j].core

\* All the shards' load commands of a QPS point are submitted, shards 0 and
\* 10 with the same slice on different hosts, shards 0 and 3 on one host.
C18_Witness ==
    /\ pc = "load"
    /\ Len(servers) = REDIS_SHARDS
    /\ Cardinality(cmds) = REDIS_SHARDS
    /\ \E c, d \in cmds :
          /\ c.shard = 0 /\ d.shard = 10
          /\ c.slice = d.slice /\ c.host # d.host
    /\ \E c, d \in cmds :
          /\ c.shard = 0 /\ d.shard = 3
          /\ c.host = d.host /\ c.slice # d.slice

\* A load of some QPS point has begun.
LoadBegun(i) == CountOf(load_started, i) > 0
LoadsReturned(i) == CountOf(load_returned, i) = REDIS_SHARDS

\* C19: the phases are separated by barriers.  A load begins only after
\* every preload has returned and after the sampler of its QPS point was
\* started; the sampler of a QPS point is started only after the loads of
\* every shard for the point before it have returned; the log copy starts
\* only after the loads of every QPS point have returned.
C19_Barriers ==
    /\ \A i \in DOMAIN qps_list :
          LoadBegun(i) => /\ preload_returned = REDIS_SHARDS
                          /\ i \in sampler
    /\ \A i \in DOMAIN qps_list :
          (i > 1 /\ i \in sampler) => LoadsReturned(i - 1)
    /\ copied => \A i \in DOMAIN qps_list : LoadsReturned(i)

\* The second QPS point of a sweep is under load, some of its shards still
\* running, after the barrier of the first.
C19_Witness ==
    /\ Len(qps_list) = 2
    /\ pc = "load"
    /\ qi = 2
    /\ LoadBegun(2)
    /\ CountOf(load_returned, 2) < CountOf(load_started, 2)
    /\ LoadsReturned(1)
====
